---------------------------- MODULE Spec2Model ----------------------------
(***************************************************************************)
(* The trivia question service of backend/flaskr/__init__.py: the six      *)
(* request handlers (categories, list, delete, create-or-search,           *)
(* list-by-category, quiz) over a store of questions and categories.       *)
(*                                                                         *)
(* Strings are sequences of one-character strings, so that SQL ILIKE and   *)
(* case folding are computed rather than assumed.  An optional value       *)
(* (Python None / a missing JSON key / a missing query argument) is the    *)
(* empty sequence, a present value v is <<v>>.                             *)
(***************************************************************************)
EXTENDS Integers, Sequences, FiniteSets

VARIABLES
    questions,   \* the questions table: rows in ascending id order
    categories,  \* the categories table: a set of rows [id, type]
    nextId,      \* the next value of the questions.id sequence
    writes,      \* number of committed inserts and deletes so far
    deleted,     \* history: ids removed by a successful delete
    req,         \* the request handled last
    resp,        \* the response to it
    session      \* a quiz client's state (used by SpecQuiz only)

vars == <<questions, categories, nextId, writes, deleted, req, resp, session>>

store == <<questions, categories, nextId, writes, deleted>>

----------------------------------------------------------------------------
(* Program constant and model bounds *)

QUESTIONS_PER_PAGE == 10

\* at most this many committed writes (inserts + deletes) in a behaviour
MaxWrites == 2
\* largest collection handed to paginate_questions in SpecPaginate
MaxN == 21
\* largest value of the ?page= argument
MaxPage == 3
\* largest store a quiz session is played against in SpecQuiz
MaxPool == 4

----------------------------------------------------------------------------
(* Strings *)

Str_title == <<"t", "i", "t", "l", "e">>
Str_TITLE == <<"T", "I", "T", "L", "E">>
Str_Title == <<"T", "i", "t", "l", "e">>
Str_Who   == <<"W", "h", "o">>
Str_zz    == <<"z", "z">>
Str_under == <<"_">>
Str_empty == <<>>
Str_answer == <<"a">>

\* case folding of one character (the letters the model's strings use)
LowerChar(c) ==
    CASE c = "T" -> "t"
      [] c = "I" -> "i"
      [] c = "L" -> "l"
      [] c = "E" -> "e"
      [] c = "W" -> "w"
      [] c = "H" -> "h"
      [] c = "O" -> "o"
      [] OTHER -> c

\* Python's s[start:end] on a list, with its clamping and negative indices
SliceIndex(i, n) ==
    IF i < 0 THEN (IF i + n < 0 THEN 0 ELSE i + n)
    ELSE (IF i > n THEN n ELSE i)

Slice(s, start, end) ==
    LET lo == SliceIndex(start, Len(s))
        hi == SliceIndex(end, Len(s))
    IN  IF lo < hi THEN [i \in 1..(hi - lo) |-> s[lo + i]] ELSE <<>>

\* SQL LIKE matching, case-insensitively (ILIKE): % matches any run of
\* characters, _ matches exactly one character, anything else itself.
RECURSIVE LikeMatch(_, _)
LikeMatch(pat, s) ==
    IF pat = <<>> THEN s = <<>>
    ELSE IF Head(pat) = "%"
         THEN LikeMatch(Tail(pat), s) \/ (s # <<>> /\ LikeMatch(pat, Tail(s)))
    ELSE IF Head(pat) = "_"
         THEN s # <<>> /\ LikeMatch(Tail(pat), Tail(s))
    ELSE s # <<>> /\ LowerChar(Head(pat)) = LowerChar(Head(s))
                  /\ LikeMatch(Tail(pat), Tail(s))

\* Question.question.ilike(f'%{search_term}%')
ilike(text, search_term) == LikeMatch(<<"%">> \o search_term \o <<"%">>, text)

----------------------------------------------------------------------------
(* Optional values, sequences *)

None == <<>>
Some(v) == <<v>>
IsNone(x) == x = <<>>
Val(x) == x[1]

Range(s) == {s[i] : i \in 1..Len(s)}


----------------------------------------------------------------------------
(* The store: models.Question and models.Category rows *)

Question(id, question, answer, difficulty, category) ==
    [id |-> id, question |-> question, answer |-> answer,
     difficulty |-> difficulty, category |-> category]

\* Question.format(): the dictionary of a row's five columns
format(q) ==
    [id |-> q.id, question |-> q.question, answer |-> q.answer,
     category |-> q.category, difficulty |-> q.difficulty]

FormatAll(selection) == [i \in 1..Len(selection) |-> format(selection[i])]

\* jsonify of a list of Question rows (the 'questions': selection responses)
jsonify_rows(selection) == FormatAll(selection)

\* Question.insert(): the row gets the next id of the sequence and is committed
insert(table, q, id) == Append(table, [q EXCEPT !.id = id])

\* Question.delete(): the row is removed and the removal committed
delete(table, q) == SelectSeq(table, LAMBDA r : r.id # q.id)

CategoryRows == {[id |-> 1, type |-> "Science"], [id |-> 2, type |-> "Art"]}

SeedQuestion(i) ==
    Question(i, IF i % 2 = 1 THEN Str_Title ELSE Str_Who, Str_answer,
             1 + (i % 3), 1 + ((i \div 2) % 2))

SeedQuestions(n) == [i \in 1..n |-> SeedQuestion(i)]

----------------------------------------------------------------------------
(* Requests and responses *)

\* the ?page= query argument: absent, not a number, or an integer
PageAbsent == [kind |-> "absent", value |-> 0]
PageText   == [kind |-> "text", value |-> 0]
PageInt(n) == [kind |-> "int", value |-> n]

PageArgs == {PageAbsent, PageText} \cup {PageInt(n) : n \in -1..MaxPage}
WritePageArgs == {PageAbsent, PageInt(2)}

NoCategory == [keys |-> {}, id |-> 0]
QuizCategory(id) == [keys |-> {"id", "type"}, id |-> id]
QuizCategoryNoId == [keys |-> {"type"}, id |-> 0]

\* a JSON body: keys are the keys present, the other fields their values
NoBody ==
    [keys |-> {}, question |-> <<>>, answer |-> <<>>, difficulty |-> 0,
     category |-> 0, searchTerm |-> <<>>, quiz_category |-> NoCategory,
     previous_questions |-> <<>>]

\* body.get(key, None)
Get(body, key) == IF key \in body.keys THEN Some(body[key]) ELSE None

CreateFields == {"question", "answer", "difficulty", "category"}

FullCreateBodies ==
    { [NoBody EXCEPT !.keys = CreateFields, !.question = b[1],
                     !.answer = Str_answer, !.difficulty = b[2],
                     !.category = b[3]] :
        b \in {<<Str_Title, 1, 1>>, <<Str_Who, 3, 2>>,
               <<Str_Title, 0, 3>>, <<Str_empty, 2, 1>>} }

\* a full body with the fields outside keep dropped
Drop(body, keep) ==
    [NoBody EXCEPT !.keys = keep,
        !.question = IF "question" \in keep THEN body.question ELSE <<>>,
        !.answer = IF "answer" \in keep THEN body.answer ELSE <<>>,
        !.difficulty = IF "difficulty" \in keep THEN body.difficulty ELSE 0,
        !.category = IF "category" \in keep THEN body.category ELSE 0]

PartialCreateBodies ==
    { Drop(CHOOSE b \in FullCreateBodies : b.category = 2, keep) :
        keep \in (SUBSET CreateFields) \ {CreateFields} }

SearchTerms == {Str_title, Str_TITLE, Str_zz, Str_under}

SearchBodies ==
    { [NoBody EXCEPT !.keys = {"searchTerm"}, !.searchTerm = t] :
        t \in SearchTerms }

\* an empty search term next to a complete / an incomplete create form
EmptyTermBodies ==
    { [b EXCEPT !.keys = b.keys \cup {"searchTerm"}, !.searchTerm = Str_empty] :
        b \in {CHOOSE f \in FullCreateBodies : f.category = 2,
               Drop(CHOOSE f \in FullCreateBodies : f.category = 2, {"question"})} }

PostBodies ==
    FullCreateBodies \cup PartialCreateBodies \cup SearchBodies \cup EmptyTermBodies

PreviousLists == {<<>>, <<1>>, <<2>>, <<1, 2>>}

QuizBody(c, prev) ==
    [NoBody EXCEPT !.keys = {"quiz_category", "previous_questions"},
                   !.quiz_category = QuizCategory(c),
                   !.previous_questions = prev]

QuizBodies ==
    { QuizBody(c, prev) : c \in 0..3, prev \in PreviousLists }
    \cup { [NoBody EXCEPT !.keys = {"quiz_category"},
                          !.quiz_category = QuizCategory(1)],
           [NoBody EXCEPT !.keys = {"previous_questions"}],
           [NoBody EXCEPT !.keys = {"quiz_category", "previous_questions"},
                          !.quiz_category = QuizCategoryNoId] }

Req(op, args, id, body) == [op |-> op, args |-> args, id |-> id, body |-> body]

NoReq == Req("none", PageAbsent, 0, NoBody)

NoCats == [i \in {} |-> ""]

BaseResp ==
    [status |-> 0, questions |-> <<>>, total |-> 0, id |-> 0,
     question |-> None, categories |-> NoCats, category |-> ""]

\* abort(code): the error handler's envelope, with its status
abort(code) == [BaseResp EXCEPT !.status = code]

NoSession == [category |-> 0, previous |-> <<>>, returned |-> <<>>, calls |-> 0,
              done |-> FALSE]

----------------------------------------------------------------------------
(* Helpers of the handlers *)

\* request.args.get("page", 1, type=int): 1 when absent or not an integer
PageOf(args) == IF args.kind = "int" THEN args.value ELSE 1

\* paginate_questions with the window started one page too far
paginate_questions_from_page(args, selection) ==
    LET page == PageOf(args)
        start == page * QUESTIONS_PER_PAGE
        end == start + QUESTIONS_PER_PAGE
        formatted == FormatAll(selection)
    IN  Slice(formatted, start, end)

\* paginate_questions(request, selection)
paginate_questions(args, selection) ==
    LET page == PageOf(args)
        start == (page - 1) * QUESTIONS_PER_PAGE
        end == start + QUESTIONS_PER_PAGE
        formatted == FormatAll(selection)
    IN  Slice(formatted, start, end)

\* the cat_dict loop: id -> type over Category.query.all()
cat_dict(cats) ==
    [i \in {c.id : c \in cats} |-> (CHOOSE c \in cats : c.id = i).type]

\* Query.one_or_none() over the rows matching a filter on a unique key
one_or_none(rows) == IF rows = <<>> THEN None ELSE Some(rows[1])

\* a lookup that compares the identifier with the wrong operator
filter_by_id_le(table, question_id) ==
    SelectSeq(table, LAMBDA q : q.id <= question_id)

\* Question.query.filter(Question.id == question_id)
filter_by_id(table, question_id) ==
    SelectSeq(table, LAMBDA q : q.id = question_id)

\* Question.query.filter_by(category=cat)
filter_by_category(table, cat) == SelectSeq(table, LAMBDA q : q.category = cat)

\* an exclusion that looks at the most recent previous question only
filter_notin_last(table, previous_questions) ==
    SelectSeq(table, LAMBDA q :
        previous_questions = <<>>
        \/ q.id # previous_questions[Len(previous_questions)])

\* .filter(Question.id.notin_(previous_questions))
filter_notin(table, previous_questions) ==
    SelectSeq(table, LAMBDA q : q.id \notin Range(previous_questions))

\* Question.query.order_by(Question.id).filter(Question.question.ilike(...))
search_selection(table, search_term) ==
    SelectSeq(table, LAMBDA q : ilike(q.question, search_term))

\* Python truthiness of body.get('searchTerm', None)
Truthy(search_term) == ~IsNone(search_term) /\ Val(search_term) # <<>>

\* a form check that tests truthiness (0 and '' count as missing)
create_fields_falsy(body) ==
    \/ IsNone(Get(body, "question")) \/ body.question = <<>>
    \/ IsNone(Get(body, "answer")) \/ body.answer = <<>>
    \/ IsNone(Get(body, "difficulty")) \/ body.difficulty = 0
    \/ IsNone(Get(body, "category")) \/ body.category = 0

\* the create form check: some field is None
create_fields_missing(body) ==
    \/ IsNone(Get(body, "question"))
    \/ IsNone(Get(body, "answer"))
    \/ IsNone(Get(body, "difficulty"))
    \/ IsNone(Get(body, "category"))

\* the bare except: clauses: whatever was raised in the try block,
\* an abort(...) included, is answered with abort(422)
delete_except_reraise(raised) == raised
delete_except(raised) == 422
post_except(raised) == 422
quiz_except(raised) == 422

\* candidate questions with the exclusion left out of the category branch
quiz_questions_unfiltered(table, category_id, previous_questions) ==
    IF category_id = 0
    THEN filter_notin(table, previous_questions)
    ELSE filter_by_category(table, category_id)

\* the quiz's candidate questions
quiz_questions(table, category_id, previous_questions) ==
    IF category_id = 0
    THEN filter_notin(table, previous_questions)
    ELSE filter_notin(filter_by_category(table, category_id), previous_questions)

\* 'total_questions': len(Question.query.all())
total_questions(table) == Len(table)

----------------------------------------------------------------------------
(* The handlers *)

\* GET /categories
get_categories ==
    LET cats == cat_dict(categories)
    IN  /\ req' = Req("categories", PageAbsent, 0, NoBody)
        /\ resp' = IF Cardinality(DOMAIN cats) = 0
                   THEN abort(404)
                   ELSE [BaseResp EXCEPT !.status = 200, !.categories = cats,
                                         !.total = Cardinality(DOMAIN cats)]
        /\ UNCHANGED <<store, session>>

\* GET /questions.  Question.query.all() has no ORDER BY: the rows are taken
\* in table order, which for rows that are only inserted and deleted is
\* ascending id.
get_questions(args) ==
    LET question_format == FormatAll(questions)
        total == Len(questions)
        current_questions == paginate_questions(args, questions)
        cats == cat_dict(categories)
    IN  /\ req' = Req("list", args, 0, NoBody)
        /\ resp' = IF Len(current_questions) = 0 \/ Cardinality(DOMAIN cats) = 0
                   THEN abort(404)
                   ELSE [BaseResp EXCEPT !.status = 200, !.categories = cats,
                                         !.total = total,
                                         !.questions = question_format]
        /\ UNCHANGED <<store, session>>

\* the success dictionary of delete_question
delete_response(question_id, args, selection, total) ==
    LET current_questions == paginate_questions(args, selection)
        question_format == FormatAll(selection)
    IN  [BaseResp EXCEPT !.status = 200, !.id = question_id,
                         !.total = total, !.questions = question_format]

\* DELETE /questions/<question_id>
delete_question(question_id, args) ==
    LET question == one_or_none(filter_by_id(questions, question_id))
    IN  /\ req' = Req("delete", args, question_id, NoBody)
        /\ IF IsNone(question)
           THEN /\ resp' = abort(delete_except(400))
                /\ UNCHANGED <<store, session>>
           ELSE LET remaining == delete(questions, Val(question))
                IN  /\ writes < MaxWrites
                    /\ questions' = remaining
                    /\ writes' = writes + 1
                    /\ deleted' = deleted \cup {Val(question).id}
                    /\ resp' = delete_response(question_id, args, remaining,
                                               total_questions(remaining))
                    /\ UNCHANGED <<categories, nextId, session>>

\* the search branch's answer: the matches, or abort(404) inside the try
search_response(args, selection) ==
    LET current_questions == paginate_questions(args, selection)
    IN  IF current_questions # <<>>
        THEN [BaseResp EXCEPT !.status = 200,
                              !.questions = jsonify_rows(selection),
                              !.total = Len(selection)]
        ELSE abort(post_except(404))

\* a create branch that, like the search branch, aborts on an empty page
create_response_checked(args, selection, created_id, total) ==
    LET current_questions == paginate_questions(args, selection)
    IN  IF current_questions # <<>>
        THEN [BaseResp EXCEPT !.status = 200, !.id = created_id,
                              !.total = total,
                              !.questions = jsonify_rows(selection)]
        ELSE abort(post_except(404))

\* the success dictionary of the create branch
create_response(args, selection, created_id, total) ==
    LET current_questions == paginate_questions(args, selection)
    IN  [BaseResp EXCEPT !.status = 200, !.id = created_id, !.total = total,
                         !.questions = jsonify_rows(selection)]

\* POST /questions
post_or_search_question(body, args) ==
    LET new_question == Get(body, "question")
        new_answer == Get(body, "answer")
        new_difficulty == Get(body, "difficulty")
        new_category == Get(body, "category")
        search_term == Get(body, "searchTerm")
    IN  /\ req' = Req("post", args, 0, body)
        /\ IF Truthy(search_term)
           THEN /\ resp' = search_response(
                              args, search_selection(questions, Val(search_term)))
                /\ UNCHANGED <<store, session>>
           ELSE IF create_fields_missing(body)
           THEN /\ resp' = abort(post_except(422))
                /\ UNCHANGED <<store, session>>
           ELSE LET created_question ==
                        Question(0, Val(new_question), Val(new_answer),
                                 Val(new_difficulty), Val(new_category))
                    inserted == insert(questions, created_question, nextId)
                IN  /\ writes < MaxWrites
                    /\ questions' = inserted
                    /\ nextId' = nextId + 1
                    /\ writes' = writes + 1
                    /\ resp' = create_response(args, inserted, nextId,
                                               total_questions(inserted))
                    /\ UNCHANGED <<categories, deleted, session>>

\* GET /categories/<cat_id>/questions
list_questions_by_category(cat_id, args) ==
    LET matching == {c \in categories : c.id = cat_id}
        current_category ==
            IF matching = {} THEN None ELSE Some(CHOOSE c \in matching : TRUE)
    IN  /\ req' = Req("by_category", args, cat_id, NoBody)
        /\ resp' =
            IF IsNone(current_category)
            THEN abort(422)
            ELSE LET selection ==
                         filter_by_category(questions, Val(current_category).id)
                     current_questions == paginate_questions(args, selection)
                 IN  [BaseResp EXCEPT !.status = 200,
                          !.category = Val(current_category).type,
                          !.total = Len(current_questions),
                          !.questions = jsonify_rows(selection)]
        /\ UNCHANGED <<store, session>>

\* what POST /quizzes answers: random_index() is any index of the candidates;
\* None['id'], a dictionary without 'id' and notin_(None) raise inside the try
quiz_responses(body) ==
    LET category == Get(body, "quiz_category")
        previous_questions == Get(body, "previous_questions")
    IN  IF \/ IsNone(category)
           \/ "id" \notin Val(category).keys
           \/ IsNone(previous_questions)
        THEN {abort(quiz_except(500))}
        ELSE LET candidates == quiz_questions(questions, Val(category).id,
                                              Val(previous_questions))
             IN  IF Len(candidates) > 0
                 THEN { [BaseResp EXCEPT !.status = 200,
                            !.question = Some(format(candidates[i + 1]))] :
                        i \in 0..(Len(candidates) - 1) }
                 ELSE { [BaseResp EXCEPT !.status = 200, !.question = None] }

\* POST /quizzes
quiz(body) ==
    /\ req' = Req("quiz", PageAbsent, 0, body)
    /\ resp' \in quiz_responses(body)

----------------------------------------------------------------------------
(* The service: requests are handled one at a time; the response to one    *)
(* leaves the server before the next is handled.                           *)

Init ==
    /\ \E n \in {0, QUESTIONS_PER_PAGE} :
          /\ questions = SeedQuestions(n)
          /\ nextId = n + 1
    /\ categories \in {{}, CategoryRows}
    /\ writes = 0
    /\ deleted = {}
    /\ req = NoReq
    /\ resp = BaseResp
    /\ session = NoSession

Idle == req.op = "none"

\* after_request: the response is returned and the request context ends
after_request ==
    /\ ~Idle
    /\ req' = NoReq
    /\ resp' = BaseResp
    /\ UNCHANGED <<store, session>>

Categories == Idle /\ get_categories

List == Idle /\ \E args \in PageArgs : get_questions(args)

Delete ==
    /\ Idle
    /\ \E question_id \in 1..nextId, args \in WritePageArgs :
          delete_question(question_id, args)

Post ==
    /\ Idle
    /\ \E body \in PostBodies, args \in PageArgs :
          post_or_search_question(body, args)

ByCategory ==
    /\ Idle
    /\ \E cat_id \in 1..3, args \in PageArgs :
          list_questions_by_category(cat_id, args)

Quiz ==
    /\ Idle
    /\ \E body \in QuizBodies : quiz(body)
    /\ UNCHANGED <<store, session>>

Next ==
    \/ Categories
    \/ List
    \/ Delete
    \/ Post
    \/ ByCategory
    \/ Quiz
    \/ after_request

Spec == Init /\ [][Next]_vars

----------------------------------------------------------------------------
(* A quiz session: a client that plays one category against a fixed store, *)
(* sending the identifiers it has been given as previous_questions.        *)

InitQuiz ==
    /\ \E n \in 0..MaxPool :
          /\ questions = SeedQuestions(n)
          /\ nextId = n + 1
    /\ categories = CategoryRows
    /\ writes = 0
    /\ deleted = {}
    /\ req = NoReq
    /\ resp = BaseResp
    /\ \E c \in 0..3, prev \in PreviousLists :
          session = [NoSession EXCEPT !.category = c, !.previous = prev]

\* the client posts its category and the identifiers seen so far
QuizCall ==
    /\ Idle
    /\ ~session.done
    /\ quiz(QuizBody(session.category, session.previous))
    /\ session' = [session EXCEPT !.calls = @ + 1]
    /\ UNCHANGED store

\* the client appends the identifier it was given; a null question ends the game
QuizAppend ==
    /\ req.op = "quiz"
    /\ session' =
          IF IsNone(resp.question)
          THEN [session EXCEPT !.done = TRUE]
          ELSE [session EXCEPT
                   !.previous = Append(@, Val(resp.question).id),
                   !.returned = Append(@, Val(resp.question).id)]
    /\ req' = NoReq
    /\ resp' = BaseResp
    /\ UNCHANGED store

NextQuiz == QuizCall \/ QuizAppend

SpecQuiz == InitQuiz /\ [][NextQuiz]_vars /\ WF_vars(NextQuiz)

----------------------------------------------------------------------------
(* paginate_questions on its own, over collections of every length *)

Reverse(s) == [i \in 1..Len(s) |-> s[Len(s) + 1 - i]]

InitPaginate ==
    /\ \E n \in 0..MaxN :
          /\ questions \in {SeedQuestions(n), Reverse(SeedQuestions(n))}
          /\ nextId = n + 1
    /\ categories = CategoryRows
    /\ writes = 0
    /\ deleted = {}
    /\ req = NoReq
    /\ resp = BaseResp
    /\ session = NoSession

Paginate ==
    \E args \in PageArgs \cup {PageInt(MaxPage + 1)} :
        /\ req' = Req("paginate", args, 0, NoBody)
        /\ resp' = [BaseResp EXCEPT !.status = 200,
                       !.questions = paginate_questions(args, questions)]
        /\ UNCHANGED <<store, session>>

NextPaginate == Paginate

SpecPaginate == InitPaginate /\ [][NextPaginate]_vars

----------------------------------------------------------------------------
(* Properties *)

\* the identifiers of a sequence of questions
Ids(s) == {s[i].id : i \in 1..Len(s)}

\* a string with every character case-folded
Fold(s) == [i \in 1..Len(s) |-> LowerChar(s[i])]

\* term occurs in text as a contiguous substring
IsSubstring(term, text) ==
    \E k \in 0..(Len(text) - Len(term)) :
        \A i \in 1..Len(term) : text[k + i] = term[i]

\* the search term of a POST /questions body, when it requests a search
IsSearch(r) == r.op = "post" /\ Truthy(Get(r.body, "searchTerm"))

\* a POST /questions body without a (non-empty) search term
IsCreate(r) == r.op = "post" /\ ~Truthy(Get(r.body, "searchTerm"))

\* a quiz body carrying both a category identifier and previous_questions
WellFormedQuiz(r) ==
    /\ r.op = "quiz"
    /\ {"quiz_category", "previous_questions"} \subseteq r.body.keys
    /\ "id" \in r.body.quiz_category.keys

\* the stored questions a quiz on category c may still return after prev
Eligible(c, prev) ==
    {q \in Range(questions) :
        q.id \notin Range(prev) /\ (c = 0 \/ q.category = c)}

\* C1: a quiz answers with a question only if its identifier is not among
\* previous_questions and it lies in the requested category (any category
\* for id 0), and with the null question exactly when no stored question
\* qualifies.
C1_QuizSelection ==
    WellFormedQuiz(req) =>
        LET ok == Eligible(req.body.quiz_category.id, req.body.previous_questions)
        IN  /\ resp.status = 200
            /\ IsNone(resp.question) <=> ok = {}
            /\ ~IsNone(resp.question) =>
                   \E q \in ok : Val(resp.question) = format(q)

\* two questions of category 1 are stored, the first is excluded and the
\* quiz on category 1 answers with the second
C1_Witness ==
    /\ WellFormedQuiz(req)
    /\ req.body.quiz_category.id = 1
    /\ req.body.previous_questions = <<1>>
    /\ Len(questions) = 2
    /\ \A q \in Range(questions) : q.category = 1
    /\ ~IsNone(resp.question)
    /\ Val(resp.question).id = 2

\* the identifiers of the session's category pool
SessionPool ==
    {q.id : q \in {r \in Range(questions) :
                      session.category = 0 \/ r.category = session.category}}

C2_SessionOk ==
    /\ Len(session.returned) <= Cardinality(SessionPool)
    /\ \A i, j \in 1..Len(session.returned) :
          i # j => session.returned[i] # session.returned[j]
    /\ Range(session.returned) \subseteq SessionPool
    /\ session.calls <= Len(session.returned) + 1
    /\ session.done => SessionPool \subseteq Range(session.previous)

\* C2: against a fixed store, a client that appends every returned
\* identifier to previous_questions is given no question twice, is given at
\* most |pool| questions, and then receives the null question.
C2_QuizTerminates == []C2_SessionOk /\ <>(session.done)

\* a session that started with nothing excluded has been given every
\* question of a pool of at least three and then the null question
C2_Witness ==
    /\ session.done
    /\ Cardinality(SessionPool) >= 3
    /\ Len(session.returned) = Cardinality(SessionPool)
    /\ session.calls = Cardinality(SessionPool) + 1

\* the items of a collection at the 0-based positions
\* [(page-1)*10, page*10), in their order
Window(items, page) ==
    LET lo == (page - 1) * QUESTIONS_PER_PAGE
        inside == {p \in 0..(Len(items) - 1) :
                      lo <= p /\ p < page * QUESTIONS_PER_PAGE}
    IN  [i \in 1..Cardinality(inside) |-> items[lo + i]]

Ascending(items) ==
    \A i \in 1..(Len(items) - 1) : items[i].id < items[i + 1].id

\* ceil(n / 10)
PageCount(n) == (n + QUESTIONS_PER_PAGE - 1) \div QUESTIONS_PER_PAGE

\* C7: for every collection and every page >= 1, paginate returns exactly
\* the items at positions [(page-1)*10, page*10) in input order; page 1 of
\* at least 10 ascending items is 10 ascending items, and page
\* ceil(N/10)+1 is empty.
C7_PaginateWindow ==
    (req.op = "paginate" /\ req.args.kind = "int" /\ req.args.value >= 1) =>
        LET page == req.args.value
            n == Len(questions)
        IN  /\ resp.questions = Window(FormatAll(questions), page)
            /\ (page = 1 /\ n >= QUESTIONS_PER_PAGE) =>
                   Len(resp.questions) = QUESTIONS_PER_PAGE
            /\ Ascending(questions) => Ascending(resp.questions)
            /\ page = PageCount(n) + 1 => resp.questions = <<>>

\* the third page of 21 ascending items is the single last item
C7_Witness ==
    /\ req.op = "paginate"
    /\ req.args = PageInt(3)
    /\ Len(questions) = 2 * QUESTIONS_PER_PAGE + 1
    /\ Ascending(questions)
    /\ resp.questions = <<format(questions[Len(questions)])>>

\* a step that handles a DELETE of an identifier the store holds
DeleteExistingStep ==
    /\ Idle
    /\ req'.op = "delete"
    /\ req'.id \in Ids(questions)

DeleteEffect ==
    /\ resp'.status = 200
    /\ resp'.id = req'.id
    /\ Len(questions') = Len(questions) - 1
    /\ resp'.total = Len(questions')
    /\ req'.id \notin Ids(questions')
    /\ \A q \in Range(questions) : q.id # req'.id => q \in Range(questions')
    /\ Range(questions') \subseteq Range(questions)

\* no success response lists or quizzes a question that was deleted
NoDeletedInResults ==
    resp.status = 200 =>
        /\ \A i \in 1..Len(resp.questions) : resp.questions[i].id \notin deleted
        /\ ~IsNone(resp.question) => Val(resp.question).id \notin deleted

\* C3: deleting a stored identifier succeeds and names it, lowers the
\* count by exactly 1 (the reported total is the new count), keeps every
\* other question, and the deleted question is in no later list, search,
\* list-by-category or quiz result.
C3_DeleteExisting ==
    [][DeleteExistingStep => DeleteEffect]_vars /\ []NoDeletedInResults

\* question 4 of ten has just been deleted: nine remain and are reported
C3_Witness ==
    /\ req.op = "delete"
    /\ req.id = 4
    /\ resp.status = 200
    /\ resp.id = 4
    /\ 4 \in deleted
    /\ resp.total = QUESTIONS_PER_PAGE - 1
    /\ Len(resp.questions) = QUESTIONS_PER_PAGE - 1

\* a step that handles a create request carrying all four fields
CreateCompleteStep ==
    /\ Idle
    /\ IsCreate(req')
    /\ CreateFields \subseteq req'.body.keys

CreateEffect ==
    /\ resp'.status = 200
    /\ resp'.id \notin Ids(questions)
    /\ resp'.id \notin deleted
    /\ Len(questions') = Len(questions) + 1
    /\ resp'.total = Len(questions')
    /\ \A q \in Range(questions) : q \in Range(questions')
    /\ \E q \in Range(questions') :
          /\ q.id = resp'.id
          /\ q.question = req'.body.question
          /\ q.answer = req'.body.answer
          /\ q.difficulty = req'.body.difficulty
          /\ q.category = req'.body.category

\* C4: a create request with question, answer, difficulty and category all
\* present answers 200 with the new identifier, which no stored question
\* has, and the count grows by exactly 1.
C4_CreateComplete == [][CreateCompleteStep => CreateEffect]_vars

\* a question with difficulty 0 was created after another was deleted
C4_Witness ==
    /\ IsCreate(req)
    /\ CreateFields \subseteq req.body.keys
    /\ req.body.difficulty = 0
    /\ resp.status = 200
    /\ deleted # {}
    /\ resp.id \in Ids(questions)
    /\ resp.total = Len(questions)

\* a step that handles a well-formed request failing a domain rule
RuleViolationStep ==
    /\ Idle
    /\ \/ req'.op = "delete" /\ req'.id \notin Ids(questions)
       \/ IsCreate(req') /\ ~(CreateFields \subseteq req'.body.keys)
       \/ req'.op = "by_category" /\ req'.id \notin {c.id : c \in categories}
       \/ /\ req'.op = "quiz"
          /\ ~({"quiz_category", "previous_questions"} \subseteq req'.body.keys)

\* C5: a delete of an identifier not in the store, a create request missing
\* one of its four fields, a list-by-category of an unknown category and a
\* quiz request lacking previous_questions or quiz_category are each
\* answered with 422.
C5_RuleViolations422 == [][RuleViolationStep => resp'.status = 422]_vars

\* an identifier deleted earlier is deleted again
C5_Witness ==
    /\ req.op = "delete"
    /\ req.id \in deleted
    /\ resp.status = 422

\* the stored questions whose text contains the term, both case-folded
SubstringMatches(term) ==
    SelectSeq(questions, LAMBDA q : IsSubstring(Fold(term), Fold(q.question)))

\* the page a request asks for lies beyond the last page of n items
BeyondLastPage(args, n) ==
    PageOf(args) >= 1 /\ (PageOf(args) - 1) * QUESTIONS_PER_PAGE >= n

\* C6: every listing query with an empty result is answered with 404:
\* GET /categories without categories, GET /questions without questions or
\* categories or beyond the last page, a search with no match.
C6_EmptyListing404 ==
    /\ (req.op = "categories" /\ categories = {}) => resp.status = 404
    /\ (/\ req.op = "list"
        /\ \/ questions = <<>>
           \/ categories = {}
           \/ BeyondLastPage(req.args, Len(questions)))
         => resp.status = 404
    /\ (IsSearch(req) /\ SubstringMatches(req.body.searchTerm) = <<>>)
         => resp.status = 404

\* the collection a success response's 'questions' is drawn from
Underlying ==
    CASE req.op = "by_category" -> filter_by_category(questions, req.id)
      [] IsSearch(req) -> search_selection(questions, req.body.searchTerm)
      [] OTHER -> questions

\* C8: in every success response of list, search, list-by-category, delete
\* and create, 'questions' is exactly the requested page of the underlying
\* collection, hence at most 10 questions.
C8_ResponsesArePages ==
    (/\ resp.status = 200
     /\ req.op \in {"list", "delete", "post", "by_category"}
     /\ PageOf(req.args) >= 1)
      => /\ resp.questions = Window(FormatAll(Underlying), PageOf(req.args))
         /\ Len(resp.questions) <= QUESTIONS_PER_PAGE

\* C9: a search with a non-empty term returns exactly the stored questions
\* whose text contains the term as a substring, both case-folded, in store
\* order.
C9_SearchIsSubstring ==
    (IsSearch(req) /\ resp.status = 200)
      => resp.questions = FormatAll(SubstringMatches(req.body.searchTerm))

\* C10: a request answered with a failure leaves the stored questions and
\* categories as they were.
C10_FailureLeavesStore ==
    [][resp'.status \in {400, 404, 422, 500}
          => questions' = questions /\ categories' = categories]_vars

\* an incomplete create form is refused after an earlier write
C10_Witness ==
    /\ IsCreate(req)
    /\ ~(CreateFields \subseteq req.body.keys)
    /\ resp.status = 422
    /\ writes > 0

============================================================================
